---- MODULE Spec2Model ----
(***************************************************************************)
(* Model of src/app.py, the Flask wrapper around the FutureHouse client.   *)
(*                                                                         *)
(* State: the two process-wide dictionaries active_tasks and task_results, *)
(* the module-level client configuration, the background threads started   *)
(* by POST /task/async (one per task id, with their position in the body   *)
(* of execute_task_async), the /task/async requests that have started      *)
(* their thread and not yet answered, the calls made to the external       *)
(* client, the webhook deliveries, and the last answer of a submission     *)
(* endpoint.  The answer of a read (status, result, /tasks) is a function  *)
(* of the registry and is an operator of the model.                        *)
(*                                                                         *)
(* The body of execute_task_async is the block at src/app.py:82-135 (its   *)
(* docstring and statements; it is the target named by threading.Thread at *)
(* src/app.py:422-425 with args (task_data, task_id, webhook_url,          *)
(* verbose)).  Each statement of it that reads or writes shared state is   *)
(* one step of the thread, since the interpreter may switch threads        *)
(* between any two of them.                                                *)
(*                                                                         *)
(* Not modelled: timestamps (started_at, completed_at, running_time), the  *)
(* verbose flag (handed to the client unchanged), the 'task_id' key that   *)
(* POST /task copies into task_data (src/app.py:240-241), log output,      *)
(* /health, /jobs and /task/test.                                          *)
(***************************************************************************)
EXTENDS Integers, Sequences, FiniteSets, TLC

(* ---- bounds ---- *)
MaxTasks == 2   \* uuids available to POST /task/async
MaxCalls == 1   \* external calls made by the synchronous endpoints
MaxBatch == 2   \* length of a batch

(* ---- values ---- *)
None == "None"             \* Python None: client unset, data.get() of an absent key
Missing == "<missing>"     \* a key that is not in the JSON object
Null == [json |-> "null"]  \* request.get_json() gave None
NoId == "-"

Ids == 1..MaxTasks

WebhookURL == "http://x/cb"
Responses == {"r1"}        \* what run_tasks_until_done may return
BatchResponses == {"r1", "r2"}  \* what arun_tasks_until_done may return for one task of the list
ExternalIds == {"ext-1"}   \* what client.create_task may return
Messages == {"boom"}       \* str(e) of what the external client may raise

(* src/app.py:25-30 *)
JobNames == [CROW |-> "CROW", FALCON |-> "FALCON", OWL |-> "OWL",
             PHOENIX |-> "PHOENIX", DUMMY |-> "DUMMY"]

(* valid_jobs, src/app.py:222, 401, 510, 571 *)
valid_jobs == {"CROW", "FALCON", "OWL", "PHOENIX", "DUMMY"}

(* str.upper() on the job names the requests of the model carry *)
upper(s) ==
    CASE s = "crow"   -> "CROW"
      [] s = "Dummy"  -> "DUMMY"
      [] s = "raven"  -> "RAVEN"
      [] OTHER        -> s

(* Python truthiness of a str-or-None value, as in `if webhook_url:` *)
truthy(v) == v \notin {None, ""}

(* dict.get(key) : None for an absent key *)
get(v) == IF v = Missing THEN None ELSE v

(* ---- request bodies ---- *)
(* JSON objects sent to /task, /task/run and /task/async; a key may be     *)
(* absent, and Null is a request without a JSON body.                      *)
ValidBodies ==
    [job_name : {"crow"}, query : {"q"}, webhook_url : {"", WebhookURL},
     runtime_config : {Missing}]
    \cup
    [job_name : {"Dummy"}, query : {"q"}, webhook_url : {Missing},
     runtime_config : {"cfg"}]

Bodies ==
    ValidBodies
    \cup {Null}
    \cup [job_name : {"raven", "RAVEN"}, query : {"q", Missing},
          webhook_url : {WebhookURL}, runtime_config : {Missing}]
    \cup [job_name : {Missing, "crow"}, query : {Missing},
          webhook_url : {Missing}, runtime_config : {Missing}]
    \cup [job_name : {Missing}, query : {"q"},
          webhook_url : {Missing}, runtime_config : {Missing}]

(* `not data` : None or the empty object *)
not_data(data) ==
    \/ data = Null
    \/ /\ data.job_name = Missing /\ data.query = Missing
       /\ data.webhook_url = Missing /\ data.runtime_config = Missing

VARIABLES
    FUTUREHOUSE_AVAILABLE,  \* src/app.py:16-20, 46-48, 57
    client,                 \* src/app.py:51-60 : "client" or None
    active_tasks,           \* src/app.py:39 : id -> [status, task_data]
    task_results,           \* src/app.py:40 : id -> payload
    next_uuid,              \* the ids uuid.uuid4() has handed out so far
    thread,                 \* id -> the background thread of that task
    handlers,               \* ids whose POST /task/async has started the thread, not answered
    accepted,               \* ids a 202 answer of POST /task/async carried
    n_calls,                \* calls made to the external client
    webhooks,               \* id -> sequence of the POSTs made to its webhook
    seen_terminal,          \* ids some read has reported with a terminal outcome
    last,                   \* the last answer of a submission endpoint (but a 202)
    listing                 \* the GET /tasks request that is running statement by statement

vars == <<FUTUREHOUSE_AVAILABLE, client, active_tasks, task_results, next_uuid,
          thread, handlers, accepted, n_calls, webhooks, seen_terminal, last,
          listing>>

config == <<FUTUREHOUSE_AVAILABLE, client>>
registry == <<active_tasks, task_results>>

(* d[k] = v for a dictionary held as a function with a growing domain *)
setitem(d, k, v) == [x \in (DOMAIN d) \cup {k} |-> IF x = k THEN v ELSE d[x]]

NoCall == [method |-> "none"]

NoAnswer == [ep |-> "none", data |-> Null, code |-> 0, body |-> [status |-> "none"],
             called |-> NoCall, returned |-> None]

(* no GET /tasks request is running *)
NoListing ==
    [pc |-> "idle", all_tasks |-> << >>, served |-> {}, used |-> 0,
     answer |-> [ep |-> "/tasks", task_id |-> NoId, code |-> 0,
                 body |-> [status |-> "none"]],
     instants |-> {}]

(* src/app.py:13-61 : the client is set exactly when the import, the key   *)
(* and the constructor all succeeded; the dictionaries start empty.        *)
Init ==
    /\ \/ FUTUREHOUSE_AVAILABLE = TRUE /\ client = "client"
       \/ FUTUREHOUSE_AVAILABLE = FALSE /\ client = None
    /\ active_tasks = << >>
    /\ task_results = << >>
    /\ next_uuid = 0
    /\ thread = << >>
    /\ handlers = {}
    /\ accepted = {}
    /\ n_calls = 0
    /\ webhooks = << >>
    /\ seen_terminal = {}
    /\ last = NoAnswer
    /\ listing = NoListing

(* the error envelope of an early return or of the decorator *)
error_answer(ep, data, code) ==
    [ep |-> ep, data |-> data, code |-> code, body |-> [error |-> TRUE],
     called |-> NoCall, returned |-> None]

(* ---- POST /task/async, src/app.py:368-440 ---- *)

(* the checks of create_async_task in the order the code makes them:       *)
(* the status code of the early return, or 202 when none is taken          *)
create_async_task_code(data) ==
    IF ~FUTUREHOUSE_AVAILABLE \/ client = None THEN 503
    ELSE IF not_data(data) THEN 400
    ELSE IF data.job_name = Missing \/ data.query = Missing THEN 400
    ELSE IF upper(data.job_name) \notin valid_jobs THEN 400
    ELSE 202

(* task_data as built at src/app.py:412-419 (and 230-237, 518-525, 578-584) *)
build_task_data(d) ==
    IF d.runtime_config # Missing
    THEN [name |-> JobNames[upper(d.job_name)], query |-> d.query,
          runtime_config |-> d.runtime_config]
    ELSE [name |-> JobNames[upper(d.job_name)], query |-> d.query]

(* an early return of create_async_task, src/app.py:373-406 *)
create_async_task_reject(data) ==
    /\ create_async_task_code(data) # 202
    /\ last' = error_answer("/task/async", data, create_async_task_code(data))
    /\ UNCHANGED <<listing, config, registry, next_uuid, thread, handlers, accepted,
                   n_calls, webhooks, seen_terminal>>

(* src/app.py:408-427 : uuid, task_data, thread.start() *)
create_async_task_start(data) ==
    /\ create_async_task_code(data) = 202
    /\ next_uuid < MaxTasks
    /\ LET task_id == next_uuid + 1 IN
       /\ next_uuid' = task_id
       /\ thread' = setitem(thread, task_id,
                            [pc |-> "L87",
                             task_data |-> build_task_data(data),
                             webhook_url |-> get(data.webhook_url),
                             exc |-> None,
                             local |-> None])
       /\ handlers' = handlers \cup {task_id}
    /\ UNCHANGED <<listing, config, registry, accepted, n_calls, webhooks, seen_terminal, last>>

(* a handler that joined its thread before answering *)
create_async_task_may_return_joined(task_id) ==
    task_id \in handlers /\ thread[task_id].pc = "done"

(* whether the handler may produce its answer now: it has started the      *)
(* thread and returns without joining it (src/app.py:427-440)              *)
create_async_task_may_return(task_id) == task_id \in handlers

(* src/app.py:431-440 : the 202 answer carrying task_id *)
create_async_task_return(task_id) ==
    /\ create_async_task_may_return(task_id)
    /\ handlers' = handlers \ {task_id}
    /\ accepted' = accepted \cup {task_id}
    /\ UNCHANGED <<listing, config, registry, next_uuid, thread, n_calls, webhooks,
                   seen_terminal, last>>

(* ---- what GET /tasks computes from the two dictionaries ---- *)

(* all_tasks, src/app.py:309-326, built from the dictionaries a and r *)
all_tasks_of(a, r) ==
    [t \in (DOMAIN a) \cup (DOMAIN r) |->
        IF t \in DOMAIN a
        THEN [status |-> a[t].status]
        ELSE [status |-> r[t].status, success |-> r[t].status = "success"]]

(* the JSON body, src/app.py:328-333, built from the dictionaries a and r *)
list_tasks_body(a, r) ==
    [tasks |-> all_tasks_of(a, r),
     total_tasks |-> Cardinality(DOMAIN all_tasks_of(a, r)),
     active_tasks |-> Cardinality(DOMAIN a),
     completed_tasks |-> Cardinality(DOMAIN r)]

(* a step of a thread while a GET /tasks request is between two of its     *)
(* statements: instants collects what the dictionaries held at each        *)
(* instant of that request                                                 *)
list_tasks_is_interleaved ==
    listing' = IF listing.pc \in {"idle", "done"}
               THEN listing
               ELSE [listing EXCEPT
                       !.instants = @ \cup {list_tasks_body(active_tasks', task_results')}]

(* ---- the background thread: execute_task_async, src/app.py:82-135 ---- *)

(* result, src/app.py:97-105 *)
success_result(task_id, task_data, task_response) ==
    [status |-> "success", task_id |-> task_id, job_name |-> task_data.name,
     query |-> task_data.query, response |-> task_response]

(* an error payload that drops the exception's message *)
error_result_generic(task_id, message) ==
    [status |-> "error", task_id |-> task_id, error |-> TRUE,
     message |-> "Erreur interne du serveur"]

(* error_result, src/app.py:121-127 *)
error_result(task_id, message) ==
    [status |-> "error", task_id |-> task_id, error |-> TRUE, message |-> message]

(* what requests.post may do, src/app.py:66-71 *)
WebhookOutcomes == {"200", "500", "transport error"}

(* a notifier without its except clause *)
send_webhook_response_uncaught(outcome) ==
    IF outcome = "transport error" THEN "raised" ELSE "returned"

(* send_webhook_response, src/app.py:63-79: a 200 and a non-200 are        *)
(* logged, and whatever requests.post raises is caught and logged; the     *)
(* value is what the caller sees: "returned", or "raised" if an exception  *)
(* left the function.                                                      *)
send_webhook_response(outcome) ==
    IF outcome = "200" THEN "returned"
    ELSE IF outcome = "transport error" THEN "returned"
    ELSE "returned"

at(task_id, pc) == task_id \in DOMAIN thread /\ thread[task_id].pc = pc

goto(task_id, pc, local) ==
    thread' = [thread EXCEPT ![task_id].pc = pc, ![task_id].local = local]

(* the entry active_tasks gets at src/app.py:87-91 *)
running_entry(task_data) == [status |-> "running", task_data |-> task_data]

(* a registration that also runs for a finished task and resets its entry *)
execute_register_any(task_id) ==
    /\ at(task_id, "L87") \/ at(task_id, "done")
    /\ active_tasks' = setitem(active_tasks, task_id,
                               running_entry(thread[task_id].task_data))
    /\ goto(task_id, IF at(task_id, "L87") THEN "L94" ELSE "done", thread[task_id].local)
    /\ UNCHANGED <<config, task_results, next_uuid, handlers, accepted, n_calls,
                   webhooks, seen_terminal, last>>
    /\ list_tasks_is_interleaved

(* a registration that rebinds active_tasks to a new dictionary *)
execute_register_rebind(task_id) ==
    /\ at(task_id, "L87")
    /\ active_tasks' = [x \in {task_id} |-> running_entry(thread[task_id].task_data)]
    /\ goto(task_id, "L94", None)
    /\ UNCHANGED <<config, task_results, next_uuid, handlers, accepted, n_calls,
                   webhooks, seen_terminal, last>>
    /\ list_tasks_is_interleaved

(* src/app.py:87-91 : active_tasks[task_id] = {'status': 'running', ...} *)
execute_register(task_id) ==
    /\ at(task_id, "L87")
    /\ active_tasks' = setitem(active_tasks, task_id,
                               running_entry(thread[task_id].task_data))
    /\ goto(task_id, "L94", None)
    /\ UNCHANGED <<config, task_results, next_uuid, handlers, accepted, n_calls,
                   webhooks, seen_terminal, last>>
    /\ list_tasks_is_interleaved

(* src/app.py:94 : client.run_tasks_until_done is entered *)
execute_call(task_id) ==
    /\ at(task_id, "L94")
    /\ n_calls' = n_calls + 1
    /\ goto(task_id, "calling", None)
    /\ UNCHANGED <<config, registry, next_uuid, handlers, accepted, webhooks,
                   seen_terminal, last>>
    /\ list_tasks_is_interleaved

(* src/app.py:94-105 : the call returns and result is built *)
execute_call_returns(task_id) ==
    /\ at(task_id, "calling")
    /\ \E r \in Responses :
          goto(task_id, "L108", success_result(task_id, thread[task_id].task_data, r))
    /\ UNCHANGED <<config, registry, next_uuid, handlers, accepted, n_calls,
                   webhooks, seen_terminal, last>>
    /\ list_tasks_is_interleaved

(* a thread that dies of what the client raised *)
execute_call_raises_uncaught(task_id) ==
    /\ at(task_id, "calling")
    /\ \E m \in Messages :
          thread' = [thread EXCEPT ![task_id].pc = "crashed", ![task_id].exc = m]
    /\ UNCHANGED <<config, registry, next_uuid, handlers, accepted, n_calls,
                   webhooks, seen_terminal, last>>
    /\ list_tasks_is_interleaved

(* src/app.py:94, 117-127 : the call raises e and error_result is built;   *)
(* exc keeps str(e) of what the client raised                              *)
execute_call_raises(task_id) ==
    /\ at(task_id, "calling")
    /\ \E m \in Messages :
          thread' = [thread EXCEPT ![task_id].pc = "L130",
                                   ![task_id].exc = m,
                                   ![task_id].local = error_result(task_id, m)]
    /\ UNCHANGED <<config, registry, next_uuid, handlers, accepted, n_calls,
                   webhooks, seen_terminal, last>>
    /\ list_tasks_is_interleaved

(* a success path that POSTs the webhook before it stores the result *)
execute_store_result_after_post(task_id) ==
    /\ at(task_id, "L108")
    /\ task_results' = setitem(task_results, task_id, thread[task_id].local)
    /\ webhooks' = IF truthy(thread[task_id].webhook_url)
                   THEN setitem(webhooks, task_id,
                                <<[data |-> thread[task_id].local, outcome |-> "200"]>>)
                   ELSE webhooks
    /\ goto(task_id, "L109", thread[task_id].local)
    /\ UNCHANGED <<config, active_tasks, next_uuid, handlers, accepted, n_calls,
                   seen_terminal, last>>
    /\ list_tasks_is_interleaved

(* src/app.py:108 : task_results[task_id] = result *)
execute_store_result(task_id) ==
    /\ at(task_id, "L108")
    /\ task_results' = setitem(task_results, task_id, thread[task_id].local)
    /\ goto(task_id, "L109", thread[task_id].local)
    /\ UNCHANGED <<config, active_tasks, next_uuid, handlers, accepted, n_calls,
                   webhooks, seen_terminal, last>>
    /\ list_tasks_is_interleaved

(* a test `webhook_url is not None` in place of the truth test *)
notifies_if_not_none(webhook_url) == webhook_url # None

(* whether the thread calls the notifier: `if webhook_url:` src/app.py:114, 134 *)
notifies(webhook_url) == truthy(webhook_url)

(* where the thread goes after the status write: to the webhook call at    *)
(* the given line, or to its end                                           *)
after_mark(task_id, line) ==
    IF notifies(thread[task_id].webhook_url) THEN line ELSE "done"

(* src/app.py:109-114 : active_tasks[task_id]['status'] = 'completed' *)
execute_mark_completed(task_id) ==
    /\ at(task_id, "L109")
    /\ active_tasks' = [active_tasks EXCEPT ![task_id].status = "completed"]
    /\ goto(task_id, after_mark(task_id, "L115"), thread[task_id].local)
    /\ UNCHANGED <<config, task_results, next_uuid, handlers, accepted, n_calls,
                   webhooks, seen_terminal, last>>
    /\ list_tasks_is_interleaved

(* the POSTs made so far to the webhook of a task, in a log w *)
deliveries_in(w, task_id) == IF task_id \in DOMAIN w THEN w[task_id] ELSE << >>

deliveries(task_id) == deliveries_in(webhooks, task_id)

(* requests.post(webhook_url, json=data, ...), src/app.py:66-71, and what  *)
(* became of it                                                            *)
post(task_id, data, outcome) ==
    webhooks' = setitem(webhooks, task_id,
                        Append(deliveries(task_id), [data |-> data, outcome |-> outcome]))

(* src/app.py:115 : the webhook of a success, inside the try block: an     *)
(* exception leaving send_webhook_response would enter the except clause   *)
(* at src/app.py:117 with that exception                                   *)
execute_webhook(task_id) ==
    /\ at(task_id, "L115")
    /\ \E o \in WebhookOutcomes :
          /\ post(task_id, thread[task_id].local, o)
          /\ IF send_webhook_response(o) = "raised"
             THEN goto(task_id, "L130", error_result(task_id, o))
             ELSE goto(task_id, "done", thread[task_id].local)
    /\ UNCHANGED <<config, registry, next_uuid, handlers, accepted, n_calls,
                   seen_terminal, last>>
    /\ list_tasks_is_interleaved

(* src/app.py:130 : task_results[task_id] = error_result *)
execute_store_error(task_id) ==
    /\ at(task_id, "L130")
    /\ task_results' = setitem(task_results, task_id, thread[task_id].local)
    /\ goto(task_id, "L131", thread[task_id].local)
    /\ UNCHANGED <<config, active_tasks, next_uuid, handlers, accepted, n_calls,
                   webhooks, seen_terminal, last>>
    /\ list_tasks_is_interleaved

(* src/app.py:131-134 : active_tasks[task_id]['status'] = 'error' *)
execute_mark_error(task_id) ==
    /\ at(task_id, "L131")
    /\ active_tasks' = [active_tasks EXCEPT ![task_id].status = "error"]
    /\ goto(task_id, after_mark(task_id, "L135"), thread[task_id].local)
    /\ UNCHANGED <<config, task_results, next_uuid, handlers, accepted, n_calls,
                   webhooks, seen_terminal, last>>
    /\ list_tasks_is_interleaved

(* src/app.py:135 : the webhook of a failure, inside the except clause: an *)
(* exception leaving send_webhook_response would leave the thread          *)
execute_webhook_error(task_id) ==
    /\ at(task_id, "L135")
    /\ \E o \in WebhookOutcomes :
          /\ post(task_id, thread[task_id].local, o)
          /\ IF send_webhook_response(o) = "raised"
             THEN goto(task_id, "crashed", thread[task_id].local)
             ELSE goto(task_id, "done", thread[task_id].local)
    /\ UNCHANGED <<config, registry, next_uuid, handlers, accepted, n_calls,
                   seen_terminal, last>>
    /\ list_tasks_is_interleaved

(* ---- the reads: src/app.py:256-333 ---- *)

read_answer(ep, task_id, code, body) ==
    [ep |-> ep, task_id |-> task_id, code |-> code, body |-> body]

(* GET /task/<task_id>/status, src/app.py:258-281 *)
get_async_task_status_answer(task_id) ==
    IF task_id \notin DOMAIN active_tasks /\ task_id \notin DOMAIN task_results
    THEN read_answer("/task/status", task_id, 404, [error |-> TRUE])
    ELSE IF task_id \in DOMAIN task_results
    THEN read_answer("/task/status", task_id, 200, task_results[task_id])
    ELSE read_answer("/task/status", task_id, 200,
                     [status |-> active_tasks[task_id].status, task_id |-> task_id])

(* a result read that goes by the status in active_tasks *)
get_async_task_result_answer_by_status(task_id) ==
    IF task_id \notin DOMAIN active_tasks
    THEN read_answer("/task/result", task_id, 404, [error |-> TRUE])
    ELSE IF active_tasks[task_id].status = "running"
    THEN read_answer("/task/result", task_id, 202,
                     [status |-> "pending", task_id |-> task_id])
    ELSE read_answer("/task/result", task_id, 200, task_results[task_id])

(* GET /task/<task_id>/result, src/app.py:285-302; the rule is registered  *)
(* a second time at src/app.py:347 and the first registration serves it    *)
(* GET /task/<task_id>/result, src/app.py:285-302 *)
get_async_task_result_answer(task_id) ==
    IF task_id \notin DOMAIN task_results
    THEN IF task_id \in DOMAIN active_tasks
         THEN read_answer("/task/result", task_id, 202,
                          [status |-> "pending", task_id |-> task_id])
         ELSE read_answer("/task/result", task_id, 404, [error |-> TRUE])
    ELSE read_answer("/task/result", task_id, 200, task_results[task_id])

(* all_tasks of GET /tasks, src/app.py:309-326, when no thread runs        *)
(* between its statements                                                  *)
all_tasks == all_tasks_of(active_tasks, task_results)

(* GET /tasks, src/app.py:306-333, when no thread runs between its         *)
(* statements                                                              *)
list_tasks_answer ==
    read_answer("/tasks", NoId, 200, list_tasks_body(active_tasks, task_results))

TerminalStatus == {"success", "error", "completed"}

(* the ids an answer reports with a terminal outcome *)
reported_terminal(a) ==
    IF a.ep = "/tasks"
    THEN {t \in DOMAIN a.body.tasks : a.body.tasks[t].status \in TerminalStatus}
    ELSE IF a.code = 200 /\ a.body.status \in TerminalStatus
    THEN {a.task_id}
    ELSE {}

(* the ids an answer reports as running or pending *)
reported_running(a) ==
    IF a.ep = "/tasks"
    THEN {t \in DOMAIN a.body.tasks : a.body.tasks[t].status \in {"running", "pending"}}
    ELSE IF a.code = 202 \/ (a.code = 200 /\ a.body.status \in {"running", "pending"})
    THEN {a.task_id}
    ELSE {}

(* a read changes nothing of the program; seen_terminal records what it reported *)
read(a) ==
    /\ seen_terminal' = seen_terminal \cup reported_terminal(a)
    /\ UNCHANGED <<listing, config, registry, next_uuid, thread, handlers, accepted,
                   n_calls, webhooks, last>>

get_async_task_status(task_id) == read(get_async_task_status_answer(task_id))

get_async_task_result(task_id) == read(get_async_task_result_answer(task_id))

list_tasks == read(list_tasks_answer)

(* ---- GET /tasks statement by statement, src/app.py:304-333 ---- *)

(* what a step of list_tasks leaves alone: it writes only its locals *)
list_tasks_frame ==
    UNCHANGED <<config, registry, next_uuid, thread, handlers, accepted, n_calls,
                webhooks, seen_terminal, last>>

(* the decorator's answer to an exception of list_tasks, src/app.py:141-147 *)
list_tasks_raised(message) ==
    [pc |-> "done", all_tasks |-> << >>, served |-> {}, used |-> 0,
     answer |-> read_answer("/tasks", NoId, 500,
                            [error |-> TRUE, message |-> message, status |-> "error"]),
     instants |-> listing.instants]

(* src/app.py:309-312 : all_tasks = {} and the iterator of                 *)
(* active_tasks.items(), which keeps the size the dictionary has now       *)
list_tasks_begin ==
    /\ listing.pc = "idle"
    /\ listing' = [pc |-> "L312", all_tasks |-> << >>, served |-> {},
                   used |-> Cardinality(DOMAIN active_tasks),
                   answer |-> NoListing.answer,
                   instants |-> {list_tasks_body(active_tasks, task_results)}]
    /\ list_tasks_frame

(* src/app.py:312-317 : one turn of the first loop.  The iterator raises   *)
(* RuntimeError when the dictionary has changed size since it was made;    *)
(* otherwise it serves a key it has not served and the body copies the     *)
(* status, or it is exhausted and the iterator of task_results.items() is  *)
(* made.  The model keeps no insertion order: the iterator may serve the   *)
(* keys in any order.                                                      *)
list_tasks_next_active ==
    /\ listing.pc = "L312"
    /\ IF Cardinality(DOMAIN active_tasks) # listing.used
       THEN listing' = list_tasks_raised("dictionary changed size during iteration")
       ELSE IF listing.served = DOMAIN active_tasks
       THEN listing' = [listing EXCEPT !.pc = "L320", !.served = {},
                                       !.used = Cardinality(DOMAIN task_results)]
       ELSE \E task_id \in (DOMAIN active_tasks) \ listing.served :
              listing' = [listing EXCEPT
                            !.served = @ \cup {task_id},
                            !.all_tasks = setitem(@, task_id,
                                [status |-> active_tasks[task_id].status])]
    /\ list_tasks_frame

(* src/app.py:320-326 : one turn of the second loop, which adds only the   *)
(* ids that are not in all_tasks                                           *)
list_tasks_next_results ==
    /\ listing.pc = "L320"
    /\ IF Cardinality(DOMAIN task_results) # listing.used
       THEN listing' = list_tasks_raised("dictionary changed size during iteration")
       ELSE IF listing.served = DOMAIN task_results
       THEN listing' = [listing EXCEPT !.pc = "L328", !.served = {}, !.used = 0]
       ELSE \E task_id \in (DOMAIN task_results) \ listing.served :
              listing' = [listing EXCEPT
                            !.served = @ \cup {task_id},
                            !.all_tasks =
                                IF task_id \in DOMAIN @ THEN @
                                ELSE setitem(@, task_id,
                                       [status |-> task_results[task_id].status,
                                        success |-> task_results[task_id].status
                                                        = "success"])]
    /\ list_tasks_frame

(* src/app.py:328-333 : the answer, with the three lengths read now *)
list_tasks_return ==
    /\ listing.pc = "L328"
    /\ listing' = [listing EXCEPT
                     !.pc = "done",
                     !.all_tasks = << >>,
                     !.answer = read_answer("/tasks", NoId, 200,
                         [tasks |-> listing.all_tasks,
                          total_tasks |-> Cardinality(DOMAIN listing.all_tasks),
                          active_tasks |-> Cardinality(DOMAIN active_tasks),
                          completed_tasks |-> Cardinality(DOMAIN task_results)])]
    /\ list_tasks_frame

(* the client has the answer; another GET /tasks may come *)
list_tasks_answered ==
    /\ listing.pc = "done"
    /\ listing' = NoListing
    /\ list_tasks_frame

(* ---- the synchronous endpoints ---- *)

(* what a call of the external client may do *)
call_returns(values) == [kind : {"returns"}, value : values]
call_raises == [kind : {"raises"}, value : Messages]

(* an answer that follows a call of the client *)
call_answer(ep, data, code, body, called, returned) ==
    [ep |-> ep, data |-> data, code |-> code, body |-> body,
     called |-> called, returned |-> returned]

(* the checks of create_task, src/app.py:203-227: the status code of the   *)
(* early return, or 0 when none is taken                                   *)
create_task_code(data) ==
    IF not_data(data) THEN 400
    ELSE IF data.job_name = Missing \/ data.query = Missing THEN 400
    ELSE IF upper(data.job_name) \notin valid_jobs THEN 400
    ELSE 0

(* POST /task, src/app.py:199-254.  With client = None the attribute       *)
(* lookup client.create_task raises and the decorator (src/app.py:137-148) *)
(* answers 500; so it does with what the client raises.                    *)
create_task(data) ==
    /\ IF create_task_code(data) # 0
       THEN /\ last' = error_answer("/task", data, create_task_code(data))
            /\ n_calls' = n_calls
       ELSE IF client = None
       THEN /\ last' = error_answer("/task", data, 500)
            /\ n_calls' = n_calls
       ELSE /\ n_calls < MaxCalls
            /\ n_calls' = n_calls + 1
            /\ \E o \in call_returns(ExternalIds) \cup call_raises :
                  LET called == [method |-> "create_task", arg |-> build_task_data(data)] IN
                  last' = IF o.kind = "raises"
                          THEN call_answer("/task", data, 500,
                                           [error |-> TRUE, message |-> o.value],
                                           called, None)
                          ELSE call_answer("/task", data, 200,
                                           [status |-> "success", task_id |-> o.value,
                                            job_name |-> upper(data.job_name),
                                            query |-> data.query],
                                           called, o.value)
    /\ UNCHANGED <<listing, config, registry, next_uuid, thread, handlers, accepted,
                   webhooks, seen_terminal>>

(* the checks of run_task_until_done, src/app.py:481-515 *)
run_task_until_done_code(data) ==
    IF ~FUTUREHOUSE_AVAILABLE \/ client = None THEN 503
    ELSE IF not_data(data) THEN 400
    ELSE IF data.job_name = Missing \/ data.query = Missing THEN 400
    ELSE IF upper(data.job_name) \notin valid_jobs THEN 400
    ELSE 0

(* a synchronous run that keeps its result in task_results *)
run_task_until_done_tracked(data) ==
    /\ IF run_task_until_done_code(data) # 0
       THEN /\ last' = error_answer("/task/run", data, run_task_until_done_code(data))
            /\ n_calls' = n_calls
            /\ task_results' = task_results
       ELSE /\ n_calls < MaxCalls
            /\ n_calls' = n_calls + 1
            /\ \E o \in call_returns(Responses) :
                  /\ last' = call_answer("/task/run", data, 200,
                                         [status |-> "success", response |-> o.value],
                                         [method |-> "run_tasks_until_done",
                                          arg |-> build_task_data(data)], o.value)
                  /\ task_results' = setitem(task_results, "sync",
                                             [status |-> "success", response |-> o.value])
    /\ UNCHANGED <<listing, config, active_tasks, next_uuid, thread, handlers, accepted,
                   webhooks, seen_terminal>>

(* POST /task/run, src/app.py:476-548 *)
run_task_until_done(data) ==
    /\ IF run_task_until_done_code(data) # 0
       THEN /\ last' = error_answer("/task/run", data, run_task_until_done_code(data))
            /\ n_calls' = n_calls
       ELSE /\ n_calls < MaxCalls
            /\ n_calls' = n_calls + 1
            /\ \E o \in call_returns(Responses) \cup call_raises :
                  LET called == [method |-> "run_tasks_until_done",
                                 arg |-> build_task_data(data)] IN
                  last' = IF o.kind = "raises"
                          THEN call_answer("/task/run", data, 500,
                                           [error |-> TRUE, message |-> o.value],
                                           called, None)
                          ELSE call_answer("/task/run", data, 200,
                                           [status |-> "success",
                                            job_name |-> upper(data.job_name),
                                            query |-> data.query,
                                            response |-> o.value],
                                           called, o.value)
    /\ UNCHANGED <<listing, config, registry, next_uuid, thread, handlers, accepted,
                   webhooks, seen_terminal>>

(* sequences over S of length at most n *)
SeqUpTo(S, n) == UNION {[1..k -> S] : k \in 0..n}

(* the entries of a batch *)
BatchEntries ==
    { [job_name |-> "crow", query |-> "q1", runtime_config |-> Missing],
      [job_name |-> "Dummy", query |-> "q2", runtime_config |-> "cfg"],
      [job_name |-> "RAVEN", query |-> "q1", runtime_config |-> Missing],
      [job_name |-> Missing, query |-> "q1", runtime_config |-> Missing] }

(* JSON bodies sent to /task/batch: no body, an object without 'tasks', or *)
(* an object whose 'tasks' is a list of entries                            *)
BatchBodies ==
    {Null, [other |-> "x"]}
    \cup {[tasks |-> t] : t \in SeqUpTo(BatchEntries, MaxBatch)}

(* an insert at the head in place of append *)
prepend(tasks_data, task_data) == <<task_data>> \o tasks_data

(* tasks_data.append(task_data), src/app.py:586 *)
append(tasks_data, task_data) == Append(tasks_data, task_data)

(* a loop that skips an entry with an unknown job in place of returning *)
RECURSIVE batch_loop_skips(_, _, _)
batch_loop_skips(tasks, i, tasks_data) ==
    IF i > Len(tasks) THEN [code |-> 0, tasks_data |-> tasks_data]
    ELSE IF tasks[i].job_name = Missing \/ tasks[i].query = Missing
    THEN [code |-> 400, tasks_data |-> tasks_data]
    ELSE IF upper(tasks[i].job_name) \notin valid_jobs
    THEN batch_loop_skips(tasks, i + 1, tasks_data)
    ELSE batch_loop_skips(tasks, i + 1, Append(tasks_data, build_task_data(tasks[i])))

(* the loop of run_batch_tasks, src/app.py:562-586, from entry i on with   *)
(* tasks_data built so far: the early return's code, or the list built     *)
RECURSIVE batch_loop(_, _, _)
batch_loop(tasks, i, tasks_data) ==
    IF i > Len(tasks) THEN [code |-> 0, tasks_data |-> tasks_data]
    ELSE IF tasks[i].job_name = Missing \/ tasks[i].query = Missing
    THEN [code |-> 400, tasks_data |-> tasks_data]
    ELSE IF upper(tasks[i].job_name) \notin valid_jobs
    THEN [code |-> 400, tasks_data |-> tasks_data]
    ELSE batch_loop(tasks, i + 1, append(tasks_data, build_task_data(tasks[i])))

(* the checks of run_batch_tasks, src/app.py:554-586 *)
run_batch_tasks_code(data) ==
    IF data = Null \/ "tasks" \notin DOMAIN data THEN 400
    ELSE batch_loop(data.tasks, 1, << >>).code

(* the JSON answer of a batch, src/app.py:600-605 *)
batch_body(results) ==
    [status |-> "success", results |-> results, count |-> Len(results)]

(* POST /task/batch, src/app.py:550-605.  With client = None the attribute *)
(* lookup client.arun_tasks_until_done raises inside the coroutine and the *)
(* decorator answers 500; so it does with what the client raises.          *)
run_batch_tasks(data) ==
    /\ IF run_batch_tasks_code(data) # 0
       THEN /\ last' = error_answer("/task/batch", data, run_batch_tasks_code(data))
            /\ n_calls' = n_calls
       ELSE IF client = None
       THEN /\ last' = error_answer("/task/batch", data, 500)
            /\ n_calls' = n_calls
       ELSE /\ n_calls < MaxCalls
            /\ n_calls' = n_calls + 1
            /\ \E o \in call_returns([1..Len(data.tasks) -> BatchResponses]) \cup call_raises :
                  LET called == [method |-> "arun_tasks_until_done",
                                 arg |-> batch_loop(data.tasks, 1, << >>).tasks_data] IN
                  last' = IF o.kind = "raises"
                          THEN call_answer("/task/batch", data, 500,
                                           [error |-> TRUE, message |-> o.value],
                                           called, None)
                          ELSE call_answer("/task/batch", data, 200,
                                           batch_body(o.value), called, o.value)
    /\ UNCHANGED <<listing, config, registry, next_uuid, thread, handlers, accepted,
                   webhooks, seen_terminal>>

(* ---- the asynchronous lifecycle and its readers ---- *)
(* The synchronous endpoints neither read nor write what these actions     *)
(* read and write but the call count; they are checked under SpecSubmit.   *)
Next ==
    \/ \E data \in Bodies : create_async_task_start(data)
    \/ \E task_id \in Ids : create_async_task_return(task_id)
    \/ \E task_id \in Ids : execute_register(task_id)
    \/ \E task_id \in Ids : execute_call(task_id)
    \/ \E task_id \in Ids : execute_call_returns(task_id)
    \/ \E task_id \in Ids : execute_call_raises(task_id)
    \/ \E task_id \in Ids : execute_store_result(task_id)
    \/ \E task_id \in Ids : execute_mark_completed(task_id)
    \/ \E task_id \in Ids : execute_webhook(task_id)
    \/ \E task_id \in Ids : execute_store_error(task_id)
    \/ \E task_id \in Ids : execute_mark_error(task_id)
    \/ \E task_id \in Ids : execute_webhook_error(task_id)
    \/ \E task_id \in Ids : get_async_task_status(task_id)
    \/ \E task_id \in Ids : get_async_task_result(task_id)
    \/ list_tasks

Spec == Init /\ [][Next]_vars

(* ---- the submission endpoints, up to the start of the thread ---- *)
NextSubmit ==
    \/ \E data \in Bodies : create_task(data)
    \/ \E data \in Bodies : run_task_until_done(data)
    \/ \E data \in BatchBodies : run_batch_tasks(data)
    \/ \E data \in Bodies : create_async_task_reject(data)
    \/ \E data \in Bodies : create_async_task_start(data)

(* a step of the thread of task_id, src/app.py:82-135 *)
execute_task_async(task_id) ==
    \/ execute_register(task_id)
    \/ execute_call(task_id)
    \/ execute_call_returns(task_id)
    \/ execute_call_raises(task_id)
    \/ execute_store_result(task_id)
    \/ execute_mark_completed(task_id)
    \/ execute_webhook(task_id)
    \/ execute_store_error(task_id)
    \/ execute_mark_error(task_id)
    \/ execute_webhook_error(task_id)

(* the steps that write the two dictionaries and the steps of a GET /tasks *)
(* that reads them, statement by statement                                 *)
NextList ==
    \/ \E data \in ValidBodies : create_async_task_start(data)
    \/ \E task_id \in Ids : execute_task_async(task_id)
    \/ list_tasks_begin
    \/ list_tasks_next_active
    \/ list_tasks_next_results
    \/ list_tasks_return
    \/ list_tasks_answered

SpecList == Init /\ [][NextList]_vars

(* a request with a webhook and a request without one *)
LiveBodies == {data \in ValidBodies : data.webhook_url # ""}

(* POST /task/async and its threads *)
NextLive ==
    \/ \E data \in LiveBodies : create_async_task_start(data)
    \/ \E task_id \in Ids : create_async_task_return(task_id)
    \/ \E task_id \in Ids : execute_task_async(task_id)

(* a started thread is scheduled again and again (threading.Thread,        *)
(* src/app.py:422-427), and a call of the client that was entered returns  *)
(* or raises                                                               *)
SpecLive ==
    /\ Init
    /\ [][NextLive]_vars
    /\ \A task_id \in Ids : WF_vars(execute_task_async(task_id))

SpecSubmit == Init /\ [][NextSubmit]_vars

(* ======================= properties ======================= *)

(* the positions of a thread at which its payload is in task_results *)
StoredPcs == {"L109", "L115", "L131", "L135", "done"}

(* the positions of a thread at which its entry is in active_tasks *)
RegisteredPcs == StoredPcs \cup {"L94", "calling", "L108", "L130"}

(* C1: once POST /task/async has answered 202 with a task id, no read of   *)
(* /task/<id>/status or /task/<id>/result made afterwards answers 404.     *)
C1_FoundOnceAccepted ==
    \A id \in accepted :
        /\ get_async_task_status_answer(id).code # 404
        /\ get_async_task_result_answer(id).code # 404

(* C2: GET /task/<id>/result answers 200 with the stored payload exactly   *)
(* when the task's thread has stored its outcome, 202 exactly when the     *)
(* thread has registered the task and not stored an outcome, and 404       *)
(* exactly when the id is in neither dictionary.                           *)
C2_ResultAnswer ==
    \A id \in Ids :
        LET a == get_async_task_result_answer(id)
            stored == id \in DOMAIN thread /\ thread[id].pc \in StoredPcs
            registered == id \in DOMAIN thread /\ thread[id].pc \in RegisteredPcs
        IN /\ a.code \in {200, 202, 404}
           /\ (a.code = 200) <=> stored
           /\ (a.code = 200) <=> (id \in DOMAIN task_results)
           /\ (a.code = 200) => (a.body = task_results[id])
           /\ (a.code = 202) <=> (registered /\ ~stored)
           /\ (a.code = 202) <=> (id \in DOMAIN active_tasks /\ id \notin DOMAIN task_results)
           /\ (a.code = 404) <=> (id \notin DOMAIN active_tasks /\ id \notin DOMAIN task_results)

C2_Witness ==
    \E i, j \in Ids :
        /\ get_async_task_result_answer(i).code = 200
        /\ get_async_task_result_answer(i).body.status = "error"
        /\ get_async_task_result_answer(j).code = 202
        /\ at(j, "calling")

(* C3: when the client's run_tasks_until_done has raised for a task, the   *)
(* finished thread has left status 'error' in active_tasks and an error    *)
(* payload with the exception's message in task_results, has POSTed that   *)
(* payload to the webhook if one was given, and no exception has left the  *)
(* thread.                                                                 *)
C3_FailureIsStored ==
    \A id \in DOMAIN thread :
        LET t == thread[id] IN
        /\ t.pc # "crashed"
        /\ (t.exc # None /\ t.pc = "done") =>
              /\ active_tasks[id].status = "error"
              /\ task_results[id].status = "error"
              /\ task_results[id].task_id = id
              /\ task_results[id].error = TRUE
              /\ task_results[id].message = t.exc
              /\ truthy(t.webhook_url) =>
                    /\ Len(deliveries(id)) = 1
                    /\ deliveries(id)[1].data = task_results[id]

C3_Witness ==
    \E id \in DOMAIN thread :
        /\ thread[id].exc = "boom"
        /\ thread[id].pc = "done"
        /\ thread[id].webhook_url = WebhookURL
        /\ deliveries(id) # << >>

(* C4: a task submitted with a (non-empty) webhook_url has its webhook     *)
(* POSTed at most once while its thread runs and exactly once when the     *)
(* thread has finished, with the payload task_results holds for it; a task *)
(* submitted without one never has.                                        *)
C4_WebhookOnce ==
    \A id \in DOMAIN thread :
        LET t == thread[id] IN
        /\ Len(deliveries(id)) <= 1
        /\ ~truthy(t.webhook_url) => deliveries(id) = << >>
        /\ deliveries(id) # << >> =>
              /\ id \in DOMAIN task_results
              /\ deliveries(id)[1].data = task_results[id]
        /\ (t.pc = "done" /\ truthy(t.webhook_url)) => Len(deliveries(id)) = 1

C4_Witness ==
    \E i, j \in DOMAIN thread :
        /\ thread[i].pc = "done" /\ thread[i].webhook_url = WebhookURL
        /\ Len(deliveries(i)) = 1
        /\ deliveries(i)[1].data.status = "success"
        /\ thread[j].pc = "done" /\ thread[j].webhook_url = None

(* C5: once a read has reported a terminal outcome for a task, no read     *)
(* through /task/<id>/status, /task/<id>/result or /tasks reports that     *)
(* task as running or pending.                                             *)
C5_PollingMonotone ==
    \A id \in seen_terminal :
        /\ id \notin reported_running(get_async_task_status_answer(id))
        /\ id \notin reported_running(get_async_task_result_answer(id))
        /\ id \notin reported_running(list_tasks_answer)

(* C6: a POST /task/async that has started its thread can always answer:   *)
(* the 202 never waits for the thread or for run_tasks_until_done.         *)
C6_SubmitNeverWaits ==
    \A id \in handlers : ENABLED create_async_task_return(id)

C6_Witness ==
    \E id \in accepted : at(id, "calling") /\ id \notin DOMAIN task_results

(* the endpoints that submit work to the external client *)
SubmissionEndpoints == {"/task", "/task/run", "/task/batch", "/task/async"}

(* a job_name that is a string and, upper-cased, none of the five job names *)
unknown_job(job_name) ==
    job_name # Missing /\ upper(job_name) \notin {"CROW", "FALCON", "OWL", "PHOENIX", "DUMMY"}

(* a request body of /task, /task/run or /task/async with such a job_name *)
has_unknown_job(data) == data # Null /\ unknown_job(data.job_name)

(* a batch with such an entry *)
batch_has_unknown_job(data) ==
    /\ "tasks" \in DOMAIN data
    /\ \E i \in 1..Len(data.tasks) : unknown_job(data.tasks[i].job_name)

(* the last answer is to a request with an unknown job_name *)
last_has_unknown_job ==
    /\ last.ep \in SubmissionEndpoints
    /\ IF last.ep = "/task/batch" THEN batch_has_unknown_job(last.data)
                                  ELSE has_unknown_job(last.data)

(* what a submission leaves alone when it makes no call, starts no thread  *)
(* and writes no registry entry                                            *)
nothing_started ==
    UNCHANGED <<active_tasks, task_results, thread, handlers, accepted, next_uuid,
                n_calls, webhooks>>

last_is_valid ==
    IF last.ep = "/task/batch"
    THEN /\ "tasks" \in DOMAIN last.data
         /\ \A i \in 1..Len(last.data.tasks) :
               /\ last.data.tasks[i].job_name # Missing
               /\ last.data.tasks[i].query # Missing
               /\ ~unknown_job(last.data.tasks[i].job_name)
    ELSE /\ last.data # Null
         /\ last.data.job_name # Missing
         /\ last.data.query # Missing
         /\ ~unknown_job(last.data.job_name)

(* C8: when the client is not available, a submission endpoint answers a   *)
(* request that would reach the client with 503 and makes no call.         *)
C8_UnavailableIs503 ==
    (client = None /\ last.ep \in SubmissionEndpoints /\ last_is_valid)
    => (last.code = 503 /\ last.called = NoCall)

(* C9: the list a batch hands to the client has one element per entry of   *)
(* 'tasks', the i-th built from tasks[i]; the answer's results are the     *)
(* list the client returned, in its order, and count is its length.        *)
C9_BatchKeepsOrder ==
    (last.ep = "/task/batch" /\ last.called # NoCall) =>
        LET tasks == last.data.tasks
            arg == last.called.arg
        IN /\ Len(arg) = Len(tasks)
           /\ \A i \in 1..Len(tasks) :
                 /\ arg[i].name = JobNames[upper(tasks[i].job_name)]
                 /\ arg[i].query = tasks[i].query
                 /\ IF tasks[i].runtime_config = Missing
                    THEN DOMAIN arg[i] = {"name", "query"}
                    ELSE arg[i].runtime_config = tasks[i].runtime_config
           /\ last.code = 200 =>
                 /\ last.body.results = last.returned
                 /\ last.body.count = Len(last.returned)
                 /\ \A i \in 1..Len(last.returned) :
                       last.body.results[i] = last.returned[i]

C9_Witness ==
    /\ last.ep = "/task/batch"
    /\ last.code = 200
    /\ Len(last.data.tasks) = 2
    /\ last.data.tasks[1].job_name = "Dummy"
    /\ last.data.tasks[2].job_name = "crow"
    /\ last.called.arg[1].name = "DUMMY"
    /\ last.called.arg[2].name = "CROW"
    /\ last.body.results = <<"r2", "r1">>

(* C10: the POST to a task's webhook is made once at most, and whatever    *)
(* comes of it (a 200, another code, a transport error) the step that      *)
(* makes it and every later step leave the task's active_tasks entry and   *)
(* its task_results payload as they were just before it.                   *)
C10_WebhookLeavesTaskAlone ==
    [][ \A id \in Ids :
          /\ deliveries_in(webhooks', id) # deliveries(id) =>
                /\ deliveries(id) = << >>
                /\ Len(deliveries_in(webhooks', id)) = 1
                /\ active_tasks' = active_tasks
                /\ task_results' = task_results
                /\ thread'[id].pc = "done"
          /\ deliveries(id) # << >> =>
                /\ deliveries_in(webhooks', id) = deliveries(id)
                /\ active_tasks'[id] = active_tasks[id]
                /\ task_results'[id] = task_results[id]
                /\ thread'[id] = thread[id] ]_vars

C10_Witness ==
    \E i, j \in DOMAIN thread :
        /\ thread[i].pc = "done" /\ thread[j].pc = "done"
        /\ Len(deliveries(i)) = 1 /\ Len(deliveries(j)) = 1
        /\ deliveries(i)[1].outcome = "transport error"
        /\ deliveries(j)[1].outcome = "500"
        /\ task_results[i] = deliveries(i)[1].data
        /\ active_tasks[i].status = "completed"
        /\ active_tasks[j].status = "error"

(* the endpoints that call the client within the request *)
SynchronousEndpoints == {"/task", "/task/run", "/task/batch"}

(* C11: POST /task, /task/run and /task/batch, answering a success or an   *)
(* error, leave active_tasks and task_results unchanged.  (Only a request  *)
(* handler writes `last`: a step that changes it is the handling of the    *)
(* request it then holds.)                                                 *)
C11_SynchronousPathsLeaveRegistry ==
    [][ (last' # last /\ last'.ep \in SynchronousEndpoints) =>
            /\ active_tasks' = active_tasks
            /\ task_results' = task_results ]_vars

C11_Witness ==
    /\ last.ep = "/task/run"
    /\ last.code = 500
    /\ last.called # NoCall
    /\ n_calls = 1
    /\ thread # << >>
    /\ active_tasks = << >>
    /\ task_results = << >>

(* C12: a task has a payload in task_results exactly when its status in    *)
(* active_tasks is terminal, a 'success' payload with 'completed' and an   *)
(* 'error' payload with 'error'; GET /tasks never shows 'running' for a    *)
(* task whose result read answers 200.                                     *)
C12_TerminalUpdateAtomic ==
    \A id \in DOMAIN active_tasks :
        LET status == active_tasks[id].status IN
        /\ (id \in DOMAIN task_results) <=> (status \in {"completed", "error"})
        /\ id \in DOMAIN task_results =>
              /\ (task_results[id].status = "success") <=> (status = "completed")
              /\ (task_results[id].status = "error") <=> (status = "error")
              /\ list_tasks_answer.body.tasks[id].status # "running"

(* C13: the status of a task in active_tasks starts as 'running' and       *)
(* changes only from 'running' to 'completed' or from 'running' to         *)
(* 'error'; an entry is never removed.                                     *)
C13_StatusTransitions ==
    [][ /\ \A id \in DOMAIN active_tasks :
              /\ id \in DOMAIN active_tasks'
              /\ active_tasks'[id].status # active_tasks[id].status =>
                    /\ active_tasks[id].status = "running"
                    /\ active_tasks'[id].status \in {"completed", "error"}
        /\ \A id \in (DOMAIN active_tasks') \ (DOMAIN active_tasks) :
              active_tasks'[id].status = "running" ]_vars

C13_Witness ==
    \E i, j \in DOMAIN active_tasks :
        /\ active_tasks[i].status = "completed"
        /\ active_tasks[j].status = "error"
        /\ at(i, "done") /\ at(j, "done")

(* C14: the payload of a task in task_results, once written, is never      *)
(* written again, removed or replaced by any later step, also when the     *)
(* webhook POST that follows the write fails.                              *)
C14_OneTerminalWrite ==
    [][ \A id \in DOMAIN task_results :
          /\ id \in DOMAIN task_results'
          /\ task_results'[id] = task_results[id] ]_vars

C14_Witness ==
    \E id \in DOMAIN thread :
        /\ at(id, "done")
        /\ deliveries(id) # << >>
        /\ deliveries(id)[1].outcome \in {"500", "transport error"}
        /\ task_results[id].status = "success"
        /\ task_results[id] = thread[id].local

(* C15: at the step that POSTs a task's webhook the payload is already in  *)
(* task_results, it is the payload POSTed, the status in active_tasks is   *)
(* already terminal, and a result read at that moment answers 200.         *)
C15_WebhookAfterTerminalUpdate ==
    [][ \A id \in Ids :
          deliveries_in(webhooks', id) # deliveries(id) =>
              /\ id \in DOMAIN task_results
              /\ id \in DOMAIN active_tasks
              /\ active_tasks[id].status \in {"completed", "error"}
              /\ LET sent == deliveries_in(webhooks', id) IN
                 sent[Len(sent)].data = task_results[id]
              /\ get_async_task_result_answer(id).code = 200 ]_vars

C15_Witness ==
    \E id \in DOMAIN thread :
        /\ at(id, "done")
        /\ Len(deliveries(id)) = 1
        /\ deliveries(id)[1].outcome = "200"
        /\ deliveries(id)[1].data = task_results[id]
        /\ get_async_task_result_answer(id).code = 200
        /\ active_tasks[id].status = "error"

(* what the two dictionaries hold for an id *)
entry(a, r, id) ==
    <<id \in DOMAIN a, IF id \in DOMAIN a THEN a[id] ELSE None,
      id \in DOMAIN r, IF id \in DOMAIN r THEN r[id] ELSE None>>

(* C18: a step of the thread of task A leaves the active_tasks and         *)
(* task_results entries of every other id as they were, and a step of a    *)
(* request handler (which moves no thread) leaves every entry as it was.   *)
C18_TasksIsolated ==
    [][ LET movers == {id \in DOMAIN thread : thread'[id] # thread[id]} IN
        \A other \in Ids \ movers :
            entry(active_tasks', task_results', other)
                = entry(active_tasks, task_results, other) ]_vars

C18_Witness ==
    \E i, j \in DOMAIN thread :
        /\ i # j
        /\ at(i, "done") /\ active_tasks[i].status = "completed"
        /\ at(j, "L131") /\ active_tasks[j].status = "running"
        /\ j \in DOMAIN task_results

(* C16: a GET /tasks that runs between the steps of the threads ends       *)
(* without error, and the tasks, statuses and three counts it answers are  *)
(* what the two dictionaries held at one instant of the call.              *)
C16_ListingIsPointInTime ==
    listing.pc = "done" =>
        /\ listing.answer.code = 200
        /\ listing.answer.body \in listing.instants

(* the task has its payload and a terminal status *)
is_terminal(id) ==
    /\ id \in DOMAIN task_results
    /\ id \in DOMAIN active_tasks
    /\ active_tasks[id].status \in {"completed", "error"}

(* C17: under fair scheduling of the threads, every task whose             *)
(* POST /task/async answered 202 eventually has a payload in task_results  *)
(* and a terminal status in active_tasks, and keeps both for ever.         *)
C17_AcceptedBecomesTerminal ==
    \A id \in Ids : (id \in accepted) ~> [] is_terminal(id)

C17_Witness ==
    \E id \in accepted :
        /\ at(id, "done")
        /\ id \in DOMAIN task_results
        /\ active_tasks[id].status \in {"completed", "error"}
        /\ \E other \in accepted : other # id /\ at(other, "calling")

(* C19: the ids of task_results are ids of active_tasks, and a GET /tasks  *)
(* that answers 200 reports total_tasks equal to its active_tasks count    *)
(* and completed_tasks at most that.                                       *)
C19_ResultsWithinActive ==
    /\ DOMAIN task_results \subseteq DOMAIN active_tasks
    /\ (listing.pc = "done" /\ listing.answer.code = 200) =>
          /\ listing.answer.body.total_tasks = listing.answer.body.active_tasks
          /\ listing.answer.body.completed_tasks <= listing.answer.body.total_tasks

====
